---- MODULE Spec2Model ----
(***************************************************************************)
(* The mashup pipeline of mixer/workflow: the session record MashupState,  *)
(* the ten node functions of nodes.py, the stage graph built by            *)
(* create_mashup_workflow and the driver run_mashup_workflow of graph.py.  *)
(*                                                                         *)
(* MashupState is a TypedDict(total=False): a dict in which a key may be   *)
(* missing.  It is modelled as a function whose DOMAIN is the set of keys  *)
(* present, so that state.get(k) and state[k] differ as they do in Python: *)
(* the first yields None for a missing key, the second raises KeyError.    *)
(*                                                                         *)
(* The second half models the functions the find_matches and recommend     *)
(* stages call: the Camelot key wheel and the catalog queries of           *)
(* mixer/memory/queries.py, and find_match, calculate_compatibility_score  *)
(* and recommend_mashup_type of mixer/agents/curator.py.  A call of one of *)
(* them is a two-step run: state holds the arguments (and the catalog the  *)
(* call reads), result what the call returned or raised.  The node         *)
(* functions called once on a prepared session, and ingest_song of         *)
(* mixer/agents/ingestion.py with its retry loop, follow in the same form. *)
(***************************************************************************)
EXTENDS Integers, Sequences, FiniteSets, TLC

VARIABLES
    state,      \* the MashupState flowing through the graph; in a call of
                \* a curator or query function, its arguments
    pc,         \* the node the graph executes next, or how the run ended;
                \* in a function call, "enter" before and "exit" after
    executed,   \* history: the nodes executed so far, in order
    result      \* what run_mashup_workflow, or the function called,
                \* handed to its caller

vars == <<state, pc, executed, result>>

-----------------------------------------------------------------------------
(* Bounds of the model *)

\* the graph executor gives up after this many node executions
\* (the recursion limit of the graph library; a full run takes 7)
RecursionLimit == 9

\* longest candidate list find_match returns in the model (max_results in
\* the code is 5)
MaxMatches == 2

\* the node-level specification calls nodes while the log is shorter
MaxLog == 4

-----------------------------------------------------------------------------
(* Python values *)

None == "None"

\* WorkflowStatus
PENDING == "pending"
INGESTING == "ingesting"
ANALYZING == "analyzing"
CURATING == "curating"
AWAITING_APPROVAL == "awaiting_approval"
ENGINEERING == "engineering"
COMPLETED == "completed"
FAILED == "failed"

WorkflowStatus ==
    {PENDING, INGESTING, ANALYZING, CURATING, AWAITING_APPROVAL,
     ENGINEERING, COMPLETED, FAILED}

\* the keys of the dispatch table in create_mashup_node
mashup_functions ==
    {"CLASSIC", "STEM_SWAP", "ENERGY_MATCHED", "ADAPTIVE_HARMONY",
     "THEME_FUSION", "SEMANTIC_ALIGNED", "ROLE_AWARE", "CONVERSATIONAL"}

\* state[k] is defined
Has(s, k) == k \in DOMAIN s

\* state.get(k)
Get(s, k) == IF Has(s, k) THEN s[k] ELSE None

\* Python truth of an optional string
Truthy(v) == v # None /\ v # ""

\* state[k] = v
Put(s, k, v) == [x \in DOMAIN s \cup {k} |-> IF x = k THEN v ELSE s[x]]

\* state["progress_messages"].append(m)
Log(s, m) == Put(s, "progress_messages", Append(s["progress_messages"], m))

\* the except-branch shared by the nodes: status FAILED and an error text
Fail(s, msg) == Put(Put(s, "status", FAILED), "error", msg)

-----------------------------------------------------------------------------
(* Inputs and the outcomes of the collaborators *)

SourcesA == {"srcA"}
SourcesB == {None, "srcB"}
RequestedTypes == {None, "ENERGY_MATCHED", "POLKA"}

\* the id the ingestion agent derives from a source
SongIdOf(src) == IF src = "srcA" THEN "songA" ELSE "songB"

\* SongMetadata of a catalog song, as far as the workflow looks at it
MetaOf(id) == [song |-> id]

\* ingest_song(source): an IngestionResult, or IngestionError
IngestOutcomes(src) ==
    {[ok |-> TRUE, id |-> SongIdOf(src), path |-> SongIdOf(src), cached |-> c] :
        c \in BOOLEAN}
    \cup {[ok |-> FALSE]}

\* get_song / profile_audio in an analyze node: the catalog already holds
\* sections, or the analysis runs and succeeds, or AnalysisError
AnalyzeOutcomes == {"cached", "analyzed", "error"}

\* catalog songs a match can name (never the target)
MatchIds == {"songM", "songN"}

MatchResult(id) == [id |-> id, metadata |-> MetaOf(id)]

\* find_match(target, "hybrid", max_results): a list of distinct
\* candidates, possibly empty, or CuratorError
MatchLists ==
    {m \in UNION {[1..n -> MatchIds] : n \in 0..MaxMatches} :
        \A i, j \in 1..Len(m) : i # j => m[i] # m[j]}

FindOutcomes ==
    {[ok |-> TRUE, matches |-> [i \in 1..Len(m) |-> MatchResult(m[i])]] :
        m \in MatchLists}
    \cup {[ok |-> FALSE]}

\* recommend_mashup_type(meta_a, meta_b): the (type, confidence) pairs of its
\* rules, confidence in percent
Recommendations ==
    {[mashup_type |-> "ADAPTIVE_HARMONY", confidence |-> 90],
     [mashup_type |-> "CONVERSATIONAL", confidence |-> 85],
     [mashup_type |-> "THEME_FUSION", confidence |-> 80],
     [mashup_type |-> "ROLE_AWARE", confidence |-> 75],
     [mashup_type |-> "CLASSIC", confidence |-> 70],
     [mashup_type |-> "CLASSIC", confidence |-> 60],
     [mashup_type |-> "CLASSIC", confidence |-> 50]}

\* the engineer function: an output path, or EngineerError
CreateOutcomes == {[ok |-> TRUE, path |-> "out.mp3"], [ok |-> FALSE]}

-----------------------------------------------------------------------------
(* The node functions of nodes.py.  name_node(s, out) is the dict the node  *)
(* leaves behind (it mutates the dict it is given); name_raises(s, out)     *)
(* says that the node leaves by an exception it does not catch, a KeyError  *)
(* from state[k] on a missing key.  out is what the collaborator called by  *)
(* the node does.                                                           *)

Enter(s, status, step, msg) ==
    Log(Put(Put(s, "status", status), "current_step", step), msg)

ingest_song_a_raises(s, out) == FALSE

ingest_song_a_node(s, out) ==
    LET s1 == Enter(s, INGESTING, "ingest_song_a", "Ingesting song A") IN
    IF out.ok
    THEN LET s2 == Put(Put(Put(s1, "song_a_id", out.id),
                           "song_a_path", out.path),
                       "song_a_cached", out.cached)
         IN Log(s2, IF out.cached THEN "Song A already in library"
                                  ELSE "Song A ingested")
    ELSE Fail(s1, "Failed to ingest song A")

\* an analysis stage that does not take the metadata of a song the catalog
\* has already analyzed
analyze_song_a_node_forgets_cached(s, out) ==
    IF ~Has(s, "song_a_id") THEN s
    ELSE
    LET s1 == Enter(s, ANALYZING, "analyze_song_a", "Analyzing song A") IN
    CASE out = "cached" -> Log(s1, "Song A already analyzed")
      [] out = "analyzed" /\ Has(s, "song_a_path") ->
            Log(Put(s1, "song_a_metadata", MetaOf(s["song_a_id"])),
                "Song A analyzed")
      [] out = "error" /\ Has(s, "song_a_path") ->
            Fail(s1, "Failed to analyze song A")
      [] OTHER -> s1

analyze_song_a_raises(s, out) ==
    \/ ~Has(s, "song_a_id")
    \/ out # "cached" /\ ~Has(s, "song_a_path")

analyze_song_a_node(s, out) ==
    IF ~Has(s, "song_a_id") THEN s
    ELSE
    LET s1 == Enter(s, ANALYZING, "analyze_song_a", "Analyzing song A") IN
    CASE out = "cached" ->
            Log(Put(s1, "song_a_metadata", MetaOf(s["song_a_id"])),
                "Song A already analyzed")
      [] out = "analyzed" /\ Has(s, "song_a_path") ->
            Log(Put(s1, "song_a_metadata", MetaOf(s["song_a_id"])),
                "Song A analyzed")
      [] out = "error" /\ Has(s, "song_a_path") ->
            Fail(s1, "Failed to analyze song A")
      [] OTHER -> s1

ingest_song_b_raises(s, out) == FALSE

ingest_song_b_node(s, out) ==
    IF ~Truthy(Get(s, "input_source_b"))
    THEN Log(s, "No song B provided")
    ELSE
    LET s1 == Enter(s, INGESTING, "ingest_song_b", "Ingesting song B") IN
    IF out.ok
    THEN LET s2 == Put(Put(Put(s1, "song_b_id", out.id),
                           "song_b_path", out.path),
                       "song_b_cached", out.cached)
         IN Log(s2, IF out.cached THEN "Song B already in library"
                                  ELSE "Song B ingested")
    ELSE Fail(s1, "Failed to ingest song B")

analyze_song_b_raises(s, out) ==
    /\ Truthy(Get(s, "song_b_id"))
    /\ out # "cached"
    /\ ~Has(s, "song_b_path")

analyze_song_b_node(s, out) ==
    IF ~Truthy(Get(s, "song_b_id")) THEN s
    ELSE
    LET s1 == Enter(s, ANALYZING, "analyze_song_b", "Analyzing song B") IN
    CASE out = "cached" ->
            Log(Put(s1, "song_b_metadata", MetaOf(s["song_b_id"])),
                "Song B already analyzed")
      [] out = "analyzed" /\ Has(s, "song_b_path") ->
            Log(Put(s1, "song_b_metadata", MetaOf(s["song_b_id"])),
                "Song B analyzed")
      [] out = "error" /\ Has(s, "song_b_path") ->
            Fail(s1, "Failed to analyze song B")
      [] OTHER -> s1

find_matches_raises(s, out) ==
    ~Truthy(Get(s, "song_b_id")) /\ ~Has(s, "song_a_id")

find_matches_node(s, out) ==
    IF Truthy(Get(s, "song_b_id")) \/ ~Has(s, "song_a_id") THEN s
    ELSE
    LET s1 == Enter(s, CURATING, "find_matches", "Finding compatible matches") IN
    IF out.ok
    THEN LET s2 == Log(Put(s1, "match_candidates", out.matches), "Found matches")
         IN IF Len(out.matches) > 0 THEN Log(s2, "Top match") ELSE s2
    ELSE Fail(s1, "Failed to find matches")

\* a selection that takes the last candidate
await_user_selection_node_selects_last(s) ==
    IF Truthy(Get(s, "song_b_id")) THEN s
    ELSE
    LET s1 == Enter(s, AWAITING_APPROVAL, "await_user_selection",
                    "Awaiting user selection of match") IN
    IF Has(s1, "match_candidates") /\ Len(s1["match_candidates"]) > 0
    THEN LET top_match == s1["match_candidates"][Len(s1["match_candidates"])] IN
         Log(Put(Put(Put(s1, "selected_match", top_match),
                     "song_b_id", top_match.id),
                 "song_b_metadata", top_match.metadata),
             "Auto-selected top match")
    ELSE s1

await_user_selection_raises(s) == FALSE

await_user_selection_node(s) ==
    IF Truthy(Get(s, "song_b_id")) THEN s
    ELSE
    LET s1 == Enter(s, AWAITING_APPROVAL, "await_user_selection",
                    "Awaiting user selection of match") IN
    IF Has(s1, "match_candidates") /\ Len(s1["match_candidates"]) > 0
    THEN LET top_match == s1["match_candidates"][1] IN
         Log(Put(Put(Put(s1, "selected_match", top_match),
                     "song_b_id", top_match.id),
                 "song_b_metadata", top_match.metadata),
             "Auto-selected top match")
    ELSE s1

recommend_mashup_type_raises(s, out) == FALSE

recommend_mashup_type_node(s, out) ==
    LET s1 == Enter(s, CURATING, "recommend_mashup_type",
                    "Analyzing songs to recommend mashup type") IN
    IF ~Has(s, "song_a_metadata") \/ ~Has(s, "song_b_metadata")
    THEN Fail(s1, "Failed to recommend mashup type")
    ELSE Log(Log(Put(s1, "recommended_mashup", out), "Recommended"), "Reason")

await_mashup_approval_raises(s) == FALSE

\* an approval that lets the recommendation override the caller's type
await_mashup_approval_node_prefers_recommendation(s) ==
    LET s1 == Enter(s, AWAITING_APPROVAL, "await_mashup_approval",
                    "Awaiting user approval of mashup type") IN
    IF Has(s1, "recommended_mashup")
    THEN Log(Put(s1, "approved_mashup_type", s1["recommended_mashup"].mashup_type),
             "Auto-approved recommended type")
    ELSE IF Truthy(Get(s1, "mashup_type"))
    THEN Log(Put(s1, "approved_mashup_type", s1["mashup_type"]),
             "Using user-specified type")
    ELSE s1

await_mashup_approval_node(s) ==
    LET s1 == Enter(s, AWAITING_APPROVAL, "await_mashup_approval",
                    "Awaiting user approval of mashup type") IN
    IF ~Truthy(Get(s1, "mashup_type")) /\ Has(s1, "recommended_mashup")
    THEN Log(Put(s1, "approved_mashup_type", s1["recommended_mashup"].mashup_type),
             "Auto-approved recommended type")
    ELSE IF Truthy(Get(s1, "mashup_type"))
    THEN Log(Put(s1, "approved_mashup_type", s1["mashup_type"]),
             "Using user-specified type")
    ELSE s1

create_mashup_raises(s, out) == ~Has(s, "song_a_id") \/ ~Has(s, "song_b_id")

\* a creation stage that builds a CLASSIC mashup when it does not know the
\* approved type
create_mashup_node_unknown_as_classic(s, out) ==
    LET s0 == Put(Put(s, "status", ENGINEERING), "current_step", "create_mashup")
        s1 == Log(s0, "Creating mashup")
    IN
    IF create_mashup_raises(s, out) THEN s1
    ELSE IF out.ok
    THEN Log(Put(Put(s1, "mashup_output_path", out.path), "status", COMPLETED),
             "Mashup created")
    ELSE Fail(s1, "Failed to create mashup")

create_mashup_node(s, out) ==
    LET s0 == Put(Put(s, "status", ENGINEERING), "current_step", "create_mashup")
        mashup_type == IF Has(s, "approved_mashup_type")
                       THEN s["approved_mashup_type"] ELSE "CLASSIC"
        s1 == Log(s0, "Creating mashup")
    IN
    IF create_mashup_raises(s, out) THEN s1
    ELSE IF mashup_type \notin mashup_functions
    THEN Fail(s1, "Failed to create mashup")
    ELSE IF out.ok
    THEN Log(Put(Put(s1, "mashup_output_path", out.path), "status", COMPLETED),
             "Mashup created")
    ELSE Fail(s1, "Failed to create mashup")

max_retries == 3

error_handler_raises(s) == FALSE

\* an error handler whose retry test is off by one
error_handler_node_off_by_one(s) ==
    LET current_retries == IF Has(s, "retry_count") THEN s["retry_count"] ELSE 0 IN
    IF current_retries <= max_retries
    THEN Put(Log(Put(s, "retry_count", current_retries + 1),
                 "Error encountered, retrying"),
             "error", None)
    ELSE Log(s, "Max retries exceeded")

\* an error handler that counts the retry and keeps the error
error_handler_node_keeps_error(s) ==
    LET current_retries == IF Has(s, "retry_count") THEN s["retry_count"] ELSE 0 IN
    IF current_retries < max_retries
    THEN Log(Put(s, "retry_count", current_retries + 1),
             "Error encountered, retrying")
    ELSE Log(s, "Max retries exceeded")

error_handler_node(s) ==
    LET current_retries == IF Has(s, "retry_count") THEN s["retry_count"] ELSE 0 IN
    IF current_retries < max_retries
    THEN Put(Log(Put(s, "retry_count", current_retries + 1),
                 "Error encountered, retrying"),
             "error", None)
    ELSE Log(s, "Max retries exceeded")

-----------------------------------------------------------------------------
(* The conditional edges of graph.py *)

should_continue_after_error(s) ==
    IF Get(s, "error") = None THEN "retry" ELSE "end"

should_find_matches(s) ==
    IF Truthy(Get(s, "song_b_id")) THEN "recommend_type" ELSE "find_matches"

\* a selection check that lets every session through
has_match_selected_always(s) == "recommend_type"

has_match_selected(s) ==
    IF Truthy(Get(s, "song_b_id")) THEN "recommend_type" ELSE "await_selection"

\* the nodes added by create_mashup_workflow
Nodes ==
    {"ingest_song_a", "analyze_song_a", "ingest_song_b", "analyze_song_b",
     "find_matches", "await_user_selection", "recommend_mashup_type",
     "await_mashup_approval", "create_mashup", "error_handler"}

END == "END"

\* the edges added by create_mashup_workflow: the node that follows node n
\* when n returned the state s.  No edge leads to error_handler, and none
\* leaves it.
create_mashup_workflow(n, s) ==
    CASE n = "ingest_song_a" -> "analyze_song_a"
      [] n = "analyze_song_a" ->
            IF should_find_matches(s) = "find_matches"
            THEN "find_matches" ELSE "ingest_song_b"
      [] n = "ingest_song_b" -> "analyze_song_b"
      [] n = "analyze_song_b" -> "recommend_mashup_type"
      [] n = "find_matches" -> "await_user_selection"
      [] n = "await_user_selection" ->
            IF has_match_selected(s) = "await_selection"
            THEN "await_user_selection" ELSE "recommend_mashup_type"
      [] n = "recommend_mashup_type" -> "await_mashup_approval"
      [] n = "await_mashup_approval" -> "create_mashup"
      [] n = "create_mashup" -> END
      [] n = "error_handler" -> END

\* set_entry_point
EntryPoint == "ingest_song_a"

-----------------------------------------------------------------------------
(* run_mashup_workflow: the initial state, the run of the compiled graph    *)
(* and what the caller gets.                                                *)

initial_state(input_source_a, input_source_b, mashup_type) ==
    [input_source_a |-> input_source_a,
     input_source_b |-> input_source_b,
     mashup_type |-> mashup_type,
     status |-> PENDING,
     current_step |-> "start",
     error |-> None,
     retry_count |-> 0,
     song_a_cached |-> FALSE,
     song_b_cached |-> FALSE,
     progress_messages |-> <<>>]

NoResult == [returned |-> FALSE]

Init ==
    /\ \E a \in SourcesA, b \in SourcesB, t \in RequestedTypes :
          state = initial_state(a, b, t)
    /\ pc = EntryPoint
    /\ executed = <<>>
    /\ result = NoResult

\* One step of app.invoke: node n runs on the state and leaves new_state.
\* A node that raises ends the run: invoke raises, the state is not
\* written back.  Otherwise the edges choose the next node.
Step(n, raises, new_state) ==
    /\ pc = n
    /\ Len(executed) < RecursionLimit
    /\ executed' = Append(executed, n)
    /\ result' = result
    /\ IF raises
       THEN /\ pc' = "raised"
            /\ state' = state
       ELSE /\ state' = new_state
            /\ pc' = create_mashup_workflow(n, new_state)

IngestSongA ==
    \E out \in IngestOutcomes(state["input_source_a"]) :
        Step("ingest_song_a", ingest_song_a_raises(state, out),
             ingest_song_a_node(state, out))

AnalyzeSongA ==
    \E out \in AnalyzeOutcomes :
        Step("analyze_song_a", analyze_song_a_raises(state, out),
             analyze_song_a_node(state, out))

IngestSongB ==
    \E out \in IngestOutcomes(Get(state, "input_source_b")) :
        Step("ingest_song_b", ingest_song_b_raises(state, out),
             ingest_song_b_node(state, out))

AnalyzeSongB ==
    \E out \in AnalyzeOutcomes :
        Step("analyze_song_b", analyze_song_b_raises(state, out),
             analyze_song_b_node(state, out))

FindMatches ==
    \E out \in FindOutcomes :
        Step("find_matches", find_matches_raises(state, out),
             find_matches_node(state, out))

AwaitUserSelection ==
    Step("await_user_selection", await_user_selection_raises(state),
         await_user_selection_node(state))

RecommendMashupType ==
    \E out \in Recommendations :
        Step("recommend_mashup_type", recommend_mashup_type_raises(state, out),
             recommend_mashup_type_node(state, out))

AwaitMashupApproval ==
    Step("await_mashup_approval", await_mashup_approval_raises(state),
         await_mashup_approval_node(state))

CreateMashup ==
    \E out \in CreateOutcomes :
        Step("create_mashup", create_mashup_raises(state, out),
             create_mashup_node(state, out))

ErrorHandler ==
    Step("error_handler", error_handler_raises(state), error_handler_node(state))

\* the executor stops a run that has not ended within the recursion limit:
\* invoke raises
GraphRecursion ==
    /\ pc \in Nodes
    /\ Len(executed) >= RecursionLimit
    /\ pc' = "raised"
    /\ UNCHANGED <<state, executed, result>>

WorkflowError(msg) == [returned |-> TRUE, exception |-> "WorkflowError", message |-> msg]

Returned(final_state) == [returned |-> TRUE, exception |-> None, final_state |-> final_state]

\* run_mashup_workflow after invoke: the final state is returned when its
\* status is COMPLETED
ReturnFinalState ==
    /\ pc = END
    /\ state["status"] = COMPLETED
    /\ result' = Returned(state)
    /\ pc' = "done"
    /\ UNCHANGED <<state, executed>>

\* a driver that hands back the final state of a failed run
RaiseWorkflowError_returns_state ==
    /\ pc \in {END, "raised"}
    /\ pc = END => state["status"] # COMPLETED
    /\ result' = [returned |-> TRUE, exception |-> None, final_state |-> state]
    /\ pc' = "done"
    /\ UNCHANGED <<state, executed>>

\* ... and every other end of the run raises WorkflowError: a final status
\* other than COMPLETED, or an exception out of invoke
RaiseWorkflowError ==
    /\ \/ pc = END /\ state["status"] # COMPLETED
          /\ result' = WorkflowError(Get(state, "error"))
       \/ pc = "raised"
          /\ result' = WorkflowError("Workflow execution failed")
    /\ pc' = "done"
    /\ UNCHANGED <<state, executed>>

\* The run of run_mashup_workflow.  The nodes ingest_song_b, analyze_song_b
\* and error_handler have no step here: see NeverExecuted.
Next ==
    \/ IngestSongA
    \/ AnalyzeSongA
    \/ FindMatches
    \/ AwaitUserSelection
    \/ RecommendMashupType
    \/ AwaitMashupApproval
    \/ CreateMashup
    \/ GraphRecursion
    \/ ReturnFinalState
    \/ RaiseWorkflowError

Spec == Init /\ [][Next]_vars

\* the run is sequential and the executor always takes the next step
FairSpec == Spec /\ WF_vars(Next)

TypeOK ==
    /\ pc \in Nodes \cup {END, "raised", "done", "call"}
    /\ state["status"] \in WorkflowStatus
    /\ Len(executed) <= RecursionLimit

\* no run of run_mashup_workflow is routed to these nodes
NeverExecuted == pc \notin {"ingest_song_b", "analyze_song_b", "error_handler"}

-----------------------------------------------------------------------------
(* The compiled graph invoked on a state its caller prepared: the session   *)
(* of run_mashup_workflow, or one in which the caller has already written   *)
(* its choice of match (selected_match, song_b_id, song_b_metadata, the     *)
(* fields await_user_selection_node waits for).                             *)

with_selection(s, id) ==
    Put(Put(Put(s, "selected_match", MatchResult(id)),
            "song_b_id", id),
        "song_b_metadata", MetaOf(id))

InitGraph ==
    /\ \E a \in SourcesA, b \in SourcesB, t \in RequestedTypes :
          \/ state = initial_state(a, b, t)
          \/ \E id \in MatchIds : state = with_selection(initial_state(a, b, t), id)
    /\ pc = EntryPoint
    /\ executed = <<>>
    /\ result = NoResult

NextGraph ==
    \/ IngestSongA
    \/ AnalyzeSongA
    \/ IngestSongB
    \/ AnalyzeSongB
    \/ FindMatches
    \/ AwaitUserSelection
    \/ RecommendMashupType
    \/ AwaitMashupApproval
    \/ CreateMashup
    \/ GraphRecursion

GraphSpec == InitGraph /\ [][NextGraph]_vars

-----------------------------------------------------------------------------
(* The node functions called one by one on a session, in any order and with *)
(* any outcome of their collaborators, as the unit tests call them.  A node *)
(* that raises leaves the dict as it was when the exception left it.        *)

Call(new_state) ==
    /\ pc = "call"
    /\ Len(state["progress_messages"]) < MaxLog
    /\ state' = new_state
    /\ UNCHANGED <<pc, executed, result>>

InitNodes ==
    /\ \E a \in SourcesA, b \in SourcesB, t \in RequestedTypes :
          state = initial_state(a, b, t)
    /\ pc = "call"
    /\ executed = <<>>
    /\ result = NoResult

CallIngestSongA ==
    \E out \in IngestOutcomes(state["input_source_a"]) :
        Call(ingest_song_a_node(state, out))

CallAnalyzeSongA == \E out \in AnalyzeOutcomes : Call(analyze_song_a_node(state, out))

CallIngestSongB ==
    \E out \in IngestOutcomes(Get(state, "input_source_b")) :
        Call(ingest_song_b_node(state, out))

CallAnalyzeSongB == \E out \in AnalyzeOutcomes : Call(analyze_song_b_node(state, out))

CallFindMatches == \E out \in FindOutcomes : Call(find_matches_node(state, out))

CallAwaitUserSelection == Call(await_user_selection_node(state))

CallRecommendMashupType ==
    \E out \in Recommendations : Call(recommend_mashup_type_node(state, out))

CallAwaitMashupApproval == Call(await_mashup_approval_node(state))

CallCreateMashup == \E out \in CreateOutcomes : Call(create_mashup_node(state, out))

CallErrorHandler == Call(error_handler_node(state))

NextNodes ==
    \/ CallIngestSongA
    \/ CallAnalyzeSongA
    \/ CallIngestSongB
    \/ CallAnalyzeSongB
    \/ CallFindMatches
    \/ CallAwaitUserSelection
    \/ CallRecommendMashupType
    \/ CallAwaitMashupApproval
    \/ CallCreateMashup
    \/ CallErrorHandler

NodeSpec == InitNodes /\ [][NextNodes]_vars

-----------------------------------------------------------------------------
(* Properties of a run of run_mashup_workflow *)

Terminal == {COMPLETED, FAILED}

Ended == pc \in {END, "raised", "done"}

\* how often message m is in the log
Count(log, m) == Cardinality({i \in 1..Len(log) : log[i] = m})

\* node n has been executed
Executed(n) == \E i \in 1..Len(executed) : executed[i] = n

\* the first nodes executed are those of order, in that order
StartsWith(order) ==
    \A i \in 1..Len(order) : i <= Len(executed) => executed[i] = order[i]

\* key k of the session is left alone by a step
Same(k) ==
    /\ Has(state', k) <=> Has(state, k)
    /\ Has(state, k) => state'[k] = state[k]

\* C1: a session in which ingest_song_a fails every time it is tried ends
\* with status FAILED, a non-empty error, retry_count = 3 and a log that
\* records 4 ingestion attempts.
C1_FourthFailureEndsSession ==
    (Ended /\ ~Has(state, "song_a_id")) =>
        /\ state["status"] = FAILED
        /\ Truthy(Get(state, "error"))
        /\ state["retry_count"] = 3
        /\ Count(state["progress_messages"], "Ingesting song A") = 4

\* C2: when a stage sets error while fewer than 3 retries have been used,
\* error handling runs next, it increments retry_count by 1 and clears
\* error, and the stage executed after it is the stage that failed.
C2_RetrySameStage ==
    [][ /\ ( /\ pc \in Nodes \ {"error_handler"}
             /\ Get(state, "error") = None
             /\ Get(state', "error") # None
             /\ state'["retry_count"] < max_retries )
           => pc' = "error_handler"
        /\ ( /\ pc = "error_handler"
             /\ state["retry_count"] < max_retries
             /\ state' # state )
           => /\ state'["retry_count"] = state["retry_count"] + 1
              /\ Get(state', "error") = None
              /\ pc' = state["current_step"]
      ]_vars

\* C3: with input_source_b supplied the run executes ingest_song_a,
\* analyze_song_a, ingest_song_b, analyze_song_b, recommend_mashup_type in
\* that order and never find_matches or await_user_selection; without it
\* the run executes find_matches then await_user_selection after
\* analyze_song_a and never ingest_song_b or analyze_song_b.
C3_BranchOnSourceB ==
    IF Truthy(state["input_source_b"])
    THEN /\ StartsWith(<<"ingest_song_a", "analyze_song_a", "ingest_song_b",
                         "analyze_song_b", "recommend_mashup_type">>)
         /\ ~Executed("find_matches")
         /\ ~Executed("await_user_selection")
    ELSE /\ StartsWith(<<"ingest_song_a", "analyze_song_a", "find_matches",
                         "await_user_selection">>)
         /\ ~Executed("ingest_song_b")
         /\ ~Executed("analyze_song_b")

\* C4: every run eventually ends with a terminal status, COMPLETED or
\* FAILED, whatever candidate list find_match returns.
C4_RunReachesTerminalStatus ==
    <>(pc = "done" /\ state["status"] \in Terminal)

\* the order of the statuses of a session
StatusOrder ==
    <<PENDING, INGESTING, ANALYZING, CURATING, AWAITING_APPROVAL,
      ANALYZING, CURATING, AWAITING_APPROVAL, ENGINEERING, COMPLETED>>

\* status b comes after status a in the order, or b is FAILED
Advances(a, b) ==
    \/ a \notin Terminal /\ b = FAILED
    \/ \E i, j \in 1..Len(StatusOrder) :
          i < j /\ StatusOrder[i] = a /\ StatusOrder[j] = b

\* C5: every change of status follows the order PENDING, INGESTING,
\* ANALYZING, CURATING, AWAITING_APPROVAL, ANALYZING, CURATING,
\* AWAITING_APPROVAL, ENGINEERING, COMPLETED or FAILED, and a status of
\* FAILED or COMPLETED is never replaced by a non-terminal one.
C5_StatusFollowsOrder ==
    [][ state'["status"] # state["status"]
          => /\ Advances(state["status"], state'["status"])
             /\ state["status"] \notin Terminal
      ]_vars

\* C6: when create_mashup completes a run that had neither a requested type
\* nor a source B, song_b_id and approved_mashup_type were both set when the
\* stage began (when it set status ENGINEERING).
C6_BoundBeforeEngineering ==
    [][ ( /\ pc = "create_mashup"
          /\ state'["status"] = COMPLETED
          /\ ~Truthy(state["mashup_type"])
          /\ ~Truthy(state["input_source_b"]) )
        => /\ Truthy(Get(state, "song_b_id"))
           /\ Truthy(Get(state, "approved_mashup_type"))
      ]_vars

\* C7: whenever recommend_mashup_type is the node to execute, song_b_id is
\* bound, on the ingest_song_b path and on the find_matches path.
C7_SongBBoundAtRecommend ==
    pc = "recommend_mashup_type" => Truthy(Get(state, "song_b_id"))

C7_Witness ==
    /\ pc = "recommend_mashup_type"
    /\ state["current_step"] = "analyze_song_b"
    /\ Truthy(Get(state, "song_b_id"))

\* C8: retry_count is an integer from 0 to 3 in every state of a session,
\* whatever nodes fail and however often the error handler is invoked.
C8_RetryCountBounded ==
    state["retry_count"] \in 0..3

C8_Witness ==
    /\ pc = "call"
    /\ state["retry_count"] = 3
    /\ Count(state["progress_messages"], "Max retries exceeded") > 0

\* C9 as claimed: when a run ends in failure the caller receives a result
\* with status FAILED, the error and the log of the session.
C9_FailureReturnsLog ==
    (pc = "done" /\ state["status"] # COMPLETED) =>
        /\ Has(result, "final_state")
        /\ result["final_state"]["status"] = FAILED
        /\ Truthy(result["final_state"]["error"])
        /\ result["final_state"]["progress_messages"] = state["progress_messages"]

\* C9 amended: a run that ends in failure raises WorkflowError, which
\* carries a message and neither status nor log; the session with its log
\* is returned only when its status is COMPLETED.
C9_FailureRaises ==
    pc = "done" =>
        IF state["status"] = COMPLETED
        THEN result = Returned(state)
        ELSE /\ result["exception"] = "WorkflowError"
             /\ ~Has(result, "final_state")

C9_Witness ==
    /\ pc = "done"
    /\ state["status"] = FAILED
    /\ Len(state["progress_messages"]) > 0
    /\ result["exception"] = "WorkflowError"

\* the mashup_type of a recommendation, None when there is none
TypeOf(s) ==
    IF Has(s, "recommended_mashup") THEN s["recommended_mashup"].mashup_type
    ELSE None

\* C10: after await_mashup_approval has run, approved_mashup_type is the
\* caller's mashup_type when one was given, and otherwise the type of the
\* recommendation that recommend_mashup_type produced (none approved when
\* none was produced); status is AWAITING_APPROVAL; song_a_id, song_b_id,
\* match_candidates and recommended_mashup are unchanged.
C10_ApprovalStage ==
    [][ (pc = "await_mashup_approval" /\ pc' = "create_mashup") =>
          /\ state'["status"] = AWAITING_APPROVAL
          /\ Get(state', "approved_mashup_type")
                = IF Truthy(state["mashup_type"])
                  THEN state["mashup_type"] ELSE TypeOf(state)
          /\ Same("song_a_id")
          /\ Same("song_b_id")
          /\ Same("match_candidates")
          /\ Same("recommended_mashup")
      ]_vars

C10_Witness ==
    /\ pc = "create_mashup"
    /\ ~Truthy(state["mashup_type"])
    /\ Has(state, "recommended_mashup")
    /\ Has(state, "approved_mashup_type")
    /\ state["approved_mashup_type"] = state["recommended_mashup"].mashup_type
    /\ state["approved_mashup_type"] # "CLASSIC"

-----------------------------------------------------------------------------
(* The Camelot key wheel: mixer/memory/queries.py, mixer/agents/curator.py *)

\* A Python string is modelled as the sequence of its characters, so that
\* slicing, int() and f-string formatting are computed, not assumed.
Digits == <<"0", "1", "2", "3", "4", "5", "6", "7", "8", "9">>

\* int(s), for s a non-empty run of digits
RECURSIVE ParseInt(_)
ParseInt(s) ==
    IF s = <<>> THEN 0
    ELSE 10 * ParseInt(SubSeq(s, 1, Len(s) - 1))
            + (CHOOSE d \in 0..9 : Digits[d + 1] = s[Len(s)])

\* f"{number}{letter}", for 0 <= number <= 99
Key(number, letter) ==
    (IF number < 10 THEN <<Digits[number + 1]>>
     ELSE <<Digits[(number \div 10) + 1], Digits[(number % 10) + 1]>>)
        \o <<letter>>

\* int(camelot[:-1]) and camelot[-1] both succeed: int raises ValueError
\* unless camelot[:-1] is a non-empty run of digits
Parses(camelot) ==
    LET s == SubSeq(camelot, 1, Len(camelot) - 1)
    IN  /\ Len(s) > 0
        /\ \A i \in 1..Len(s) : \E d \in 1..10 : Digits[d] = s[i]

\* int(camelot[:-1])
Number(camelot) == ParseInt(SubSeq(camelot, 1, Len(camelot) - 1))

\* camelot[-1]
Letter(camelot) == camelot[Len(camelot)]

abs(x) == IF x < 0 THEN -x ELSE x

min(x, y) == IF x <= y THEN x ELSE y

\* what a call hands back: a value, or an exception
Return(v) == [returned |-> TRUE, exception |-> None, value |-> v]

Raise(e, message) ==
    [returned |-> TRUE, exception |-> e, message |-> message]

_get_compatible_keys_raises(camelot) ==
    Len(camelot) >= 2 /\ ~Parses(camelot)

_get_compatible_keys_no_wraparound(camelot) ==
    IF Len(camelot) < 2 THEN <<camelot>>
    ELSE LET number == Number(camelot)
             letter == Letter(camelot)
             adjacent_plus == number + 1
             adjacent_minus == number - 1
             opposite_letter == IF letter = "B" THEN "A" ELSE "B"
         IN  << camelot,
                Key(adjacent_plus, letter),
                Key(adjacent_minus, letter),
                Key(number, opposite_letter) >>

_get_compatible_keys(camelot) ==
    IF Len(camelot) < 2 THEN <<camelot>>
    ELSE LET number == Number(camelot)
             letter == Letter(camelot)
             adjacent_plus == (number % 12) + 1
             adjacent_minus == ((number - 2) % 12) + 1
             opposite_letter == IF letter = "B" THEN "A" ELSE "B"
         IN  << camelot,
                Key(adjacent_plus, letter),
                Key(adjacent_minus, letter),
                Key(number, opposite_letter) >>

\* the parse of _camelot_distance is not guarded: int() raises ValueError
_camelot_distance_raises(key1, key2) ==
    key1 # key2 /\ (~Parses(key1) \/ ~Parses(key2))

_camelot_distance_same_circle_only(key1, key2) ==
    IF key1 = key2 THEN 0
    ELSE LET num1 == Number(key1)
             num2 == Number(key2)
         IN  IF num1 = num2 THEN 1
             ELSE min(abs(num1 - num2), 12 - abs(num1 - num2))

_camelot_distance(key1, key2) ==
    IF key1 = key2 THEN 0
    ELSE LET num1 == Number(key1)
             letter1 == Letter(key1)
             num2 == Number(key2)
             letter2 == Letter(key2)
             distance == min(abs(num1 - num2), 12 - abs(num1 - num2))
         IN  IF num1 = num2 THEN 1
             ELSE IF letter1 # letter2 THEN distance + 1
             ELSE distance

_calculate_camelot_distance_at_most_six(camelot_a, camelot_b) ==
    IF camelot_a = camelot_b THEN 0
    ELSE IF ~Parses(camelot_a) \/ ~Parses(camelot_b) THEN 6
    ELSE LET num_a == Number(camelot_a)
             letter_a == Letter(camelot_a)
             num_b == Number(camelot_b)
             letter_b == Letter(camelot_b)
             wheel_dist == min(abs(num_a - num_b), 12 - abs(num_a - num_b))
         IN  IF num_a = num_b /\ letter_a # letter_b THEN 1
             ELSE IF letter_a = letter_b THEN wheel_dist
             ELSE min(wheel_dist + 1, 6)

\* the parse of _calculate_camelot_distance is guarded: a key that does not
\* parse is at distance 6
_calculate_camelot_distance_no_wraparound(camelot_a, camelot_b) ==
    IF camelot_a = camelot_b THEN 0
    ELSE IF ~Parses(camelot_a) \/ ~Parses(camelot_b) THEN 6
    ELSE LET num_a == Number(camelot_a)
             letter_a == Letter(camelot_a)
             num_b == Number(camelot_b)
             letter_b == Letter(camelot_b)
             wheel_dist == abs(num_a - num_b)
         IN  IF num_a = num_b /\ letter_a # letter_b THEN 1
             ELSE IF letter_a = letter_b THEN wheel_dist
             ELSE wheel_dist + 1

_calculate_camelot_distance(camelot_a, camelot_b) ==
    IF camelot_a = camelot_b THEN 0
    ELSE IF ~Parses(camelot_a) \/ ~Parses(camelot_b) THEN 6
    ELSE LET num_a == Number(camelot_a)
             letter_a == Letter(camelot_a)
             num_b == Number(camelot_b)
             letter_b == Letter(camelot_b)
             wheel_dist == min(abs(num_a - num_b), 12 - abs(num_a - num_b))
         IN  IF num_a = num_b /\ letter_a # letter_b THEN 1
             ELSE IF letter_a = letter_b THEN wheel_dist
             ELSE wheel_dist + 1

\* The keys the calls are tried on: the 24 keys of the wheel (the keys of
\* camelot_map), and strings that are not keys of the wheel: "Unknown",
\* which key_to_camelot stores for a key it does not know, and "B"
ValidKeys == {Key(n, l) : n \in 1..12, l \in {"A", "B"}}

Unknown == <<"U", "n", "k", "n", "o", "w", "n">>

Keys == ValidKeys \cup { Unknown, <<"B">> }

\* a call of function fn that hands back r
Exit(fn, r) ==
    /\ pc = "enter"
    /\ pc' = "exit"
    /\ executed' = <<fn>>
    /\ result' = r
    /\ UNCHANGED state

InitKeys ==
    /\ state \in [key1 : Keys, key2 : Keys]
    /\ pc = "enter"
    /\ executed = <<>>
    /\ result = NoResult

CallGetCompatibleKeys ==
    Exit("_get_compatible_keys",
         IF _get_compatible_keys_raises(state.key1) THEN Raise("ValueError", "invalid literal for int()")
         ELSE Return(_get_compatible_keys(state.key1)))

CallCamelotDistance ==
    Exit("_camelot_distance",
         IF _camelot_distance_raises(state.key1, state.key2)
         THEN Raise("ValueError", "invalid literal for int()")
         ELSE Return(_camelot_distance(state.key1, state.key2)))

CallCalculateCamelotDistance ==
    Exit("_calculate_camelot_distance",
         Return(_calculate_camelot_distance(state.key1, state.key2)))

NextKeys ==
    \/ CallGetCompatibleKeys
    \/ CallCamelotDistance
    \/ CallCalculateCamelotDistance

KeySpec == InitKeys /\ [][NextKeys]_vars

-----------------------------------------------------------------------------
(* The scorer: calculate_compatibility_score of mixer/agents/curator.py *)

\* A Python float is modelled as the exact fraction n/d in lowest terms
\* with d > 0: the arithmetic of the scorer is computed, without rounding.
RECURSIVE Gcd(_, _)
Gcd(a, b) == IF b = 0 THEN a ELSE Gcd(b, a % b)

Float(n, d) ==
    LET g == Gcd(abs(n), d)
    IN  [n |-> n \div g, d |-> d \div g]

fadd(x, y) == Float(x.n * y.d + y.n * x.d, x.d * y.d)

fsub(x, y) == Float(x.n * y.d - y.n * x.d, x.d * y.d)

fmul(x, y) == Float(x.n * y.n, x.d * y.d)

\* x / y for y > 0
fdiv(x, y) == Float(x.n * y.d, x.d * y.n)

flt(x, y) == x.n * y.d < y.n * x.d

fmax(x, y) == IF flt(x, y) THEN y ELSE x

fmin(x, y) == IF flt(y, x) THEN y ELSE x

\* meta.get(k, default) on a dict modelled as a function on its keys
GetOr(meta, k, default) == IF k \in DOMAIN meta THEN meta[k] ELSE default

\* sum(scores[k] * weights[k] for k in weights.keys())
RECURSIVE WeightedSum(_, _, _)
WeightedSum(scores, weights, keys) ==
    IF keys = {} THEN Float(0, 1)
    ELSE LET k == CHOOSE x \in keys : TRUE
         IN  fadd(fmul(scores[k], weights[k]),
                  WeightedSum(scores, weights, keys \ {k}))

\* weights is None: the defaults (no curator.weight_* is configured)
default_weights ==
    [bpm |-> Float(35, 100), key |-> Float(30, 100),
     energy |-> Float(20, 100), genre |-> Float(15, 100)]

\* the division by bpm_a is not guarded
calculate_compatibility_score_raises(song_a_meta, song_b_meta) ==
    GetOr(song_a_meta, "bpm", 120) = 0

\* the four factor scores and their reasons
factor_scores(song_a_meta, song_b_meta) ==
    LET bpm_a == GetOr(song_a_meta, "bpm", 120)
        bpm_b == GetOr(song_b_meta, "bpm", 120)
        bpm_diff_pct == fdiv(Float(abs(bpm_a - bpm_b), 1), Float(bpm_a, 1))
        bpm_score == fmax(Float(0, 1),
                          fsub(Float(1, 1), fdiv(bpm_diff_pct, Float(1, 10))))
        camelot_a == GetOr(song_a_meta, "camelot", Key(8, "B"))
        camelot_b == GetOr(song_b_meta, "camelot", Key(8, "B"))
        key_distance == _calculate_camelot_distance(camelot_a, camelot_b)
        key_score == fmax(Float(0, 1),
                          fsub(Float(1, 1), Float(key_distance, 6)))
        energy_a == Float(GetOr(song_a_meta, "energy_level", 5), 10)
        energy_b == Float(GetOr(song_b_meta, "energy_level", 5), 10)
        energy_diff == fmax(fsub(energy_a, energy_b),
                            fsub(energy_b, energy_a))
        energy_score == fmax(Float(0, 1), fsub(Float(1, 1), energy_diff))
        genre_a == GetOr(song_a_meta, "primary_genre", "Unknown")
        genre_b == GetOr(song_b_meta, "primary_genre", "Unknown")
        genre_score == IF genre_a = genre_b THEN Float(1, 1) ELSE Float(1, 2)
    IN  [scores |-> [bpm |-> bpm_score, key |-> key_score,
                     energy |-> energy_score, genre |-> genre_score],
         reasons |->
            << IF flt(bpm_diff_pct, Float(2, 100)) THEN "BPM: perfect match"
               ELSE IF flt(bpm_diff_pct, Float(5, 100))
                    THEN "BPM: excellent match"
               ELSE "BPM: diff",
               IF key_distance = 0 THEN "Key: perfect match"
               ELSE IF key_distance = 1 THEN "Key: adjacent on Camelot wheel"
               ELSE "Key: distance",
               IF flt(energy_diff, Float(15, 100))
               THEN "Energy: similar vibe" ELSE "Energy: contrast",
               IF genre_a = genre_b THEN "Genre: same genre"
               ELSE "Genre: cross-genre blend" >>]

calculate_compatibility_score_unclamped(song_a_meta, song_b_meta, weights) ==
    LET f == factor_scores(song_a_meta, song_b_meta)
        total_score == WeightedSum(f.scores, weights, DOMAIN weights)
    IN  [score |-> total_score, reasons |-> f.reasons]

calculate_compatibility_score(song_a_meta, song_b_meta, weights) ==
    LET f == factor_scores(song_a_meta, song_b_meta)
        total_score == WeightedSum(f.scores, weights, DOMAIN weights)
    IN  [score |-> fmin(Float(1, 1), fmax(Float(0, 1), total_score)),
         reasons |-> f.reasons]

\* a key of a dict that may be missing, or hold one of the values
Optional(k, values) == {[x \in {} |-> None]} \cup {(k :> v) : v \in values}

\* The song records the scorer is tried on: each key may be missing
SongMetas ==
    { b @@ c @@ e @@ g :
        b \in Optional("bpm", {0, 120, 125}),
        c \in Optional("camelot", {Key(8, "B"), Key(11, "A"), Unknown}),
        e \in Optional("energy_level", {3, 8}),
        g \in Optional("primary_genre", {"Pop", "Country"}) }

\* caller-supplied weight maps: the one of the unit test, one that sums to
\* more than 1, and one with a negative weight for a single factor
WeightMaps ==
    { [bpm |-> Float(5, 10), key |-> Float(3, 10),
       energy |-> Float(1, 10), genre |-> Float(1, 10)],
      [bpm |-> Float(2, 1), key |-> Float(2, 1),
       energy |-> Float(2, 1), genre |-> Float(2, 1)],
      [genre |-> Float(-1, 1)] }

InitScore ==
    /\ \E a \in SongMetas, b \in SongMetas, w \in Optional("weights", WeightMaps) :
          state = [song_a_meta |-> a, song_b_meta |-> b] @@ w
    /\ pc = "enter"
    /\ executed = <<>>
    /\ result = NoResult

CallCalculateCompatibilityScore ==
    Exit("calculate_compatibility_score",
         IF calculate_compatibility_score_raises(state.song_a_meta,
                                                 state.song_b_meta)
         THEN Raise("ZeroDivisionError", "float division by zero")
         ELSE Return(calculate_compatibility_score(
                        state.song_a_meta, state.song_b_meta,
                        GetOr(state, "weights", default_weights))))

ScoreSpec == InitScore /\ [][CallCalculateCompatibilityScore]_vars

-----------------------------------------------------------------------------
(* The mashup-type selector: recommend_mashup_type of curator.py *)

\* longest section list of a song in the model
MaxSections == 2

\* set(a_list)
ToSet(list) == {list[i] : i \in 1..Len(list)}

\* set(s.get(field) for s in sections)
FieldValues(sections, field) == {s[field] : s \in ToSet(sections)}

\* the set built by themes.update(section.get("themes", [])) over sections
ThemesOf(sections) == UNION {ToSet(s["themes"]) : s \in ToSet(sections)}

\* the list of recommendations, in the order the rules append them;
\* first_common is list(common_themes)[0]
recommendations(song_a_meta, song_b_meta, first_common) ==
    LET sections_a == GetOr(song_a_meta, "sections", <<>>)
        sections_b == GetOr(song_b_meta, "sections", <<>>)
        has_sections == sections_a # <<>> /\ sections_b # <<>>
        key_distance == _calculate_camelot_distance(
                            GetOr(song_a_meta, "camelot", Key(8, "B")),
                            GetOr(song_b_meta, "camelot", Key(8, "B")))
        has_vocals_a == GetOr(song_a_meta, "has_vocals", TRUE)
        has_vocals_b == GetOr(song_b_meta, "has_vocals", TRUE)
        funcs_a == FieldValues(sections_a, "lyrical_function")
        funcs_b == FieldValues(sections_b, "lyrical_function")
        has_question_a == "question" \in funcs_a
        has_answer_b == "answer" \in funcs_b
        has_narrative == "narrative" \in funcs_a \/ "narrative" \in funcs_b
        has_reflection == "reflection" \in funcs_a \/ "reflection" \in funcs_b
        common_themes == ThemesOf(sections_a) \cap ThemesOf(sections_b)
        densities_a == FieldValues(sections_a, "vocal_density")
        densities_b == FieldValues(sections_b, "vocal_density")
        has_dense == "dense" \in densities_a \/ "dense" \in densities_b
        has_sparse == "sparse" \in densities_a \/ "sparse" \in densities_b
        adaptive ==
            IF key_distance > 2 /\ has_vocals_a /\ has_vocals_b
            THEN << [type |-> "ADAPTIVE_HARMONY", confidence |-> Float(9, 10),
                     reason |-> <<"Keys are steps apart", key_distance>>] >>
            ELSE <<>>
        conversational ==
            IF has_sections /\ ( (has_question_a /\ has_answer_b)
                                 \/ (has_narrative /\ has_reflection) )
            THEN << [type |-> "CONVERSATIONAL", confidence |-> Float(85, 100),
                     reason |-> <<"Songs have complementary lyrical functions">>] >>
            ELSE <<>>
        theme_fusion ==
            IF has_sections /\ common_themes # {}
            THEN << [type |-> "THEME_FUSION", confidence |-> Float(80, 100),
                     reason |-> <<"Shared theme", first_common>>] >>
            ELSE <<>>
        role_aware ==
            IF has_sections /\ has_dense /\ has_sparse
            THEN << [type |-> "ROLE_AWARE", confidence |-> Float(75, 100),
                     reason |-> <<"Contrasting vocal densities">>] >>
            ELSE <<>>
        classic ==
            IF has_vocals_a /\ has_vocals_b
            THEN << [type |-> "CLASSIC", confidence |-> Float(70, 100),
                     reason |-> <<"Both songs have vocals">>] >>
            ELSE IF has_vocals_a \/ has_vocals_b
            THEN << [type |-> "CLASSIC", confidence |-> Float(60, 100),
                     reason |-> <<"One song has vocals">>] >>
            ELSE <<>>
        found == adaptive \o conversational \o theme_fusion \o role_aware
                    \o classic
    IN  IF found = <<>>
        THEN << [type |-> "CLASSIC", confidence |-> Float(50, 100),
                 reason |-> <<"Default mashup type">>] >>
        ELSE found

\* max(a_list, key=lambda x: x["confidence"]): the first of the greatest
MaxByConfidence(list) ==
    LET i == CHOOSE j \in 1..Len(list) :
                /\ \A k \in 1..Len(list) :
                      ~flt(list[j].confidence, list[k].confidence)
                /\ \A k \in 1..(j - 1) :
                      flt(list[k].confidence, list[j].confidence)
    IN  list[i]

\* first_common is list(common_themes)[0], first_a is list(themes_a)[0]
recommend_mashup_type(song_a_meta, song_b_meta, first_common, first_a) ==
    LET sections_a == GetOr(song_a_meta, "sections", <<>>)
        sections_b == GetOr(song_b_meta, "sections", <<>>)
        has_sections == sections_a # <<>> /\ sections_b # <<>>
        best == MaxByConfidence(
                    recommendations(song_a_meta, song_b_meta, first_common))
        config_suggestion ==
            [song_a_id |-> << GetOr(song_a_meta, "artist", "unknown"), "_",
                              GetOr(song_a_meta, "title", "unknown") >>,
             song_b_id |-> << GetOr(song_b_meta, "artist", "unknown"), "_",
                              GetOr(song_b_meta, "title", "unknown") >>]
        themes_a == ThemesOf(sections_a)
    IN  [mashup_type |-> best.type,
         confidence |-> best.confidence,
         reasoning |-> best.reason,
         config_suggestion |->
            IF best.type = "THEME_FUSION" /\ has_sections /\ themes_a # {}
            THEN config_suggestion @@ ("theme" :> first_a)
            ELSE config_suggestion]

\* The sections the selector is tried on
SectionSamples ==
    { [lyrical_function |-> "question", themes |-> <<"love", "hope">>,
       vocal_density |-> "dense"],
      [lyrical_function |-> "answer", themes |-> <<"love", "loss">>,
       vocal_density |-> "sparse"],
      [lyrical_function |-> "hook", themes |-> <<"love">>,
       vocal_density |-> "medium"],
      [lyrical_function |-> "narrative", themes |-> <<>>,
       vocal_density |-> "medium"],
      [lyrical_function |-> "reflection", themes |-> <<>>,
       vocal_density |-> "medium"] }

SelectorMetas ==
    { s @@ c @@ v :
        s \in Optional("sections",
                UNION {[1..n -> SectionSamples] : n \in 0..MaxSections}),
        c \in Optional("camelot", {Key(11, "A")}),
        v \in Optional("has_vocals", {TRUE, FALSE}) }

InitSelector ==
    /\ state \in [song_a_meta : SelectorMetas, song_b_meta : SelectorMetas]
    /\ pc = "enter"
    /\ executed = <<>>
    /\ result = NoResult

\* list(a_set)[0]: a set of strings is iterated in an order that depends on
\* the hash seed of the process, so the first element is any element
CallCuratorRecommendMashupType ==
    LET themes_a == ThemesOf(GetOr(state.song_a_meta, "sections", <<>>))
        themes_b == ThemesOf(GetOr(state.song_b_meta, "sections", <<>>))
        first_of(a_set) == IF a_set = {} THEN {None} ELSE a_set
    IN  \E first_common \in first_of(themes_a \cap themes_b),
           first_a \in first_of(themes_a) :
            Exit("recommend_mashup_type",
                 Return(recommend_mashup_type(state.song_a_meta,
                                              state.song_b_meta,
                                              first_common, first_a)))

SelectorSpec == InitSelector /\ [][CallCuratorRecommendMashupType]_vars

-----------------------------------------------------------------------------
(* The catalog queries of mixer/memory/queries.py and find_match of        *)
(* mixer/agents/curator.py                                                  *)

\* The catalog is the list of the stored songs, in storage order.  A stored
\* song is [id, metadata, document, distance]: distance is what the vector
\* index reports between the song's document and the text of the query.

\* a_list[:n]
Take(list, n) == SubSeq(list, 1, min(n, Len(list)))

\* [x for x in a_list if keep(x)]
RECURSIVE Filter(_, _)
Filter(list, keep) ==
    IF list = <<>> THEN <<>>
    ELSE (IF Head(list) \in keep THEN <<Head(list)>> ELSE <<>>)
            \o Filter(Tail(list), keep)

\* a_list.sort(key=lambda x: x["compatibility_score"], reverse=True): the
\* sort is stable, so an element is preceded by the elements of greater
\* score and by the earlier elements of equal score
sort_reverse(list) ==
    LET score(i) == list[i].compatibility_score
        ahead(i) == {j \in 1..Len(list) :
                        \/ flt(score(i), score(j))
                        \/ j < i /\ ~flt(score(j), score(i))}
    IN  [p \in 1..Len(list) |->
            list[CHOOSE i \in 1..Len(list) : Cardinality(ahead(i)) = p - 1]]

\* collection.query(query_texts, n_results, where=...): the n_results
\* nearest of the stored songs that satisfy the clause, nearest first
collection_query(catalog, n_results, matching) ==
    LET found == Filter(catalog, matching)
        ahead(i) == {j \in 1..Len(found) :
                        \/ flt(found[j].distance, found[i].distance)
                        \/ j < i /\ ~flt(found[i].distance, found[j].distance)}
        nearest_first ==
            [p \in 1..Len(found) |->
                found[CHOOSE i \in 1..Len(found) :
                            Cardinality(ahead(i)) = p - 1]]
    IN  Take(nearest_first, n_results)

\* get_song: the stored song, or None
get_song_found(catalog, song_id) ==
    \E i \in 1..Len(catalog) : catalog[i].id = song_id

get_song(catalog, song_id) ==
    LET i == CHOOSE j \in 1..Len(catalog) : catalog[j].id = song_id
    IN  [id |-> catalog[i].id, metadata |-> catalog[i].metadata,
         document |-> catalog[i].document]

exclude_nothing(results, exclude_ids) == results

\* the loop that drops the excluded ids from the results of a query
exclude(results, exclude_ids) ==
    Filter(results, {x \in ToSet(results) : x.id \notin exclude_ids})

harmonic_where_tempo_only(catalog, target_bpm, target_key) ==
    LET bpm_tolerance == Float(5, 100)
        bpm_min == fmul(Float(target_bpm, 1), fsub(Float(1, 1), bpm_tolerance))
        bpm_max == fmul(Float(target_bpm, 1), fadd(Float(1, 1), bpm_tolerance))
    IN  {x \in ToSet(catalog) :
            /\ "bpm" \in DOMAIN x.metadata
            /\ ~flt(Float(x.metadata["bpm"], 1), bpm_min)
            /\ ~flt(bpm_max, Float(x.metadata["bpm"], 1))
            /\ "camelot" \in DOMAIN x.metadata}

\* the where clause of query_harmonic: bpm in the window, key compatible;
\* collection.get(where=...) is the Filter of the catalog by it
harmonic_where(catalog, target_bpm, target_key) ==
    LET bpm_tolerance == Float(5, 100)
        bpm_min == fmul(Float(target_bpm, 1), fsub(Float(1, 1), bpm_tolerance))
        bpm_max == fmul(Float(target_bpm, 1), fadd(Float(1, 1), bpm_tolerance))
        compatible_keys == ToSet(_get_compatible_keys(target_key))
    IN  {x \in ToSet(catalog) :
            /\ "bpm" \in DOMAIN x.metadata
            /\ ~flt(Float(x.metadata["bpm"], 1), bpm_min)
            /\ ~flt(bpm_max, Float(x.metadata["bpm"], 1))
            /\ "camelot" \in DOMAIN x.metadata
            /\ x.metadata["camelot"] \in compatible_keys}

\* every exception in query_harmonic leaves it as QueryError: the target
\* key does not parse, or a candidate is ranked against a target bpm of 0
query_harmonic_raises(catalog, target_bpm, target_key, exclude_ids) ==
    \/ _get_compatible_keys_raises(target_key)
    \/ LET found == exclude(Filter(catalog,
                        harmonic_where(catalog, target_bpm, target_key)),
                        exclude_ids)
       IN  \E i \in 1..Len(found) :
              \/ target_bpm = 0
              \/ _camelot_distance_raises(target_key,
                                          found[i].metadata["camelot"])

query_harmonic(catalog, target_bpm, target_key, max_results, exclude_ids) ==
    LET found == exclude(Filter(catalog,
                     harmonic_where(catalog, target_bpm, target_key)),
                     exclude_ids)
        ranked(x) ==
            LET bpm_diff == abs(x.metadata["bpm"] - target_bpm)
                key_distance == _camelot_distance(target_key,
                                                  x.metadata["camelot"])
                bpm_score == fsub(Float(1, 1), Float(bpm_diff, target_bpm))
                key_score == fsub(Float(1, 1), Float(key_distance, 6))
            IN  [id |-> x.id,
                 compatibility_score |->
                    fadd(fmul(bpm_score, Float(6, 10)),
                         fmul(key_score, Float(4, 10))),
                 metadata |-> x.metadata,
                 match_reasons |-> << <<"BPM", x.metadata["bpm"], bpm_diff>>,
                                      <<"Key", x.metadata["camelot"],
                                        key_distance>> >>]
        ranked_results == [i \in 1..Len(found) |-> ranked(found[i])]
    IN  Take(sort_reverse(ranked_results), max_results)

\* the where clause of query_semantic: the genre, when one is given
genre_where(catalog, genre_filter) ==
    IF Truthy(genre_filter)
    THEN {x \in ToSet(catalog) :
            /\ "primary_genre" \in DOMAIN x.metadata
            /\ x.metadata["primary_genre"] = genre_filter}
    ELSE ToSet(catalog)

query_semantic(catalog, max_results, genre_filter, exclude_ids) ==
    LET found == exclude(collection_query(catalog, max_results * 2,
                                          genre_where(catalog, genre_filter)),
                         exclude_ids)
        formatted(x) ==
            LET similarity_score == fsub(Float(1, 1), x.distance)
            IN  [id |-> x.id,
                 compatibility_score |-> similarity_score,
                 metadata |-> x.metadata,
                 match_reasons |->
                    << <<"Semantic similarity", similarity_score>>,
                       <<"Mood", GetOr(x.metadata, "mood_summary", "N/A")>>,
                       <<"Genre", GetOr(x.metadata, "primary_genre", "N/A")>> >>]
    IN  [i \in 1..min(max_results, Len(found)) |-> formatted(found[i])]

\* query_hybrid raises QueryError when the target lacks a bpm or a key, or
\* its bpm is 0, and when its harmonic query raises
query_hybrid_raises(catalog, target_song_id) ==
    \/ ~get_song_found(catalog, target_song_id)
    \/ LET target_meta == get_song(catalog, target_song_id).metadata
       IN  \/ "bpm" \notin DOMAIN target_meta
           \/ target_meta["bpm"] = 0
           \/ "camelot" \notin DOMAIN target_meta
           \/ target_meta["camelot"] = <<>>
           \/ query_harmonic_raises(catalog, target_meta["bpm"],
                                    target_meta["camelot"], {target_song_id})

\* the where clause of the semantic query of query_hybrid: the metadata
\* field "id" equals one of the candidate ids, and the genre when given
hybrid_where(catalog, candidate_ids, genre_filter) ==
    {x \in genre_where(catalog, genre_filter) :
        /\ "id" \in DOMAIN x.metadata
        /\ x.metadata["id"] \in candidate_ids}

query_hybrid(catalog, target_song_id, max_results, genre_filter) ==
    LET target_meta == get_song(catalog, target_song_id).metadata
        target_bpm == target_meta["bpm"]
        target_key == target_meta["camelot"]
        harmonic_results == query_harmonic(catalog, target_bpm, target_key,
                                           50, {target_song_id})
        candidate_ids == {harmonic_results[i].id :
                            i \in 1..Len(harmonic_results)}
        semantic_results ==
            collection_query(catalog, max_results,
                hybrid_where(catalog, candidate_ids, genre_filter))
        known == Filter(semantic_results,
                        {x \in ToSet(semantic_results) :
                            x.id \in candidate_ids})
        combined(x) ==
            LET harmonic_match ==
                    CHOOSE r \in ToSet(harmonic_results) : r.id = x.id
                harmonic_score == harmonic_match.compatibility_score
                semantic_score == fsub(Float(1, 1), x.distance)
                hybrid_score == fadd(fmul(harmonic_score, Float(6, 10)),
                                     fmul(semantic_score, Float(4, 10)))
            IN  [id |-> x.id,
                 compatibility_score |-> hybrid_score,
                 metadata |-> harmonic_match.metadata,
                 match_reasons |->
                    << <<"Hybrid score", hybrid_score>>,
                       <<"BPM", harmonic_match.metadata["bpm"], target_bpm>>,
                       <<"Key", harmonic_match.metadata["camelot"],
                         target_key>>,
                       <<"Semantic similarity", semantic_score>> >>]
        hybrid_results == [i \in 1..Len(known) |-> combined(known[i])]
    IN  IF harmonic_results = <<>> THEN <<>>
        ELSE Take(sort_reverse(hybrid_results), max_results)

semantic_query_text_default_na(semantic_query, target_meta) ==
    IF Truthy(semantic_query) THEN semantic_query
    ELSE GetOr(target_meta, "mood_summary", "N/A")

\* semantic_query or target_meta.get("mood_summary", "")
semantic_query_text(semantic_query, target_meta) ==
    IF Truthy(semantic_query) THEN semantic_query
    ELSE GetOr(target_meta, "mood_summary", "")

\* _enhance_match_result: score and reasons are replaced by the scorer's
_enhance_match_result(match, target_meta) ==
    LET scored == calculate_compatibility_score(target_meta, match.metadata,
                                                default_weights)
    IN  [match EXCEPT !.compatibility_score = scored.score,
                      !.match_reasons = scored.reasons]

\* the tail of find_match: the first max_results results, each enhanced;
\* every exception leaves find_match as CuratorError, the scorer's too
enhanced_results(results, target_meta, max_results) ==
    LET first == Take(results, max_results)
    IN  IF \E i \in 1..Len(first) :
              calculate_compatibility_score_raises(target_meta,
                                                   first[i].metadata)
        THEN Raise("CuratorError", "Match finding failed")
        ELSE Return([i \in 1..Len(first) |->
                        _enhance_match_result(first[i], target_meta)])

find_match(catalog, target_song_id, criteria, genre_filter, semantic_query, max_results) ==
    IF ~get_song_found(catalog, target_song_id)
    THEN Raise("CuratorError", "Target song not found")
    ELSE
    LET target_meta == get_song(catalog, target_song_id).metadata
        target_bpm == GetOr(target_meta, "bpm", 120)
        target_key == GetOr(target_meta, "camelot", Key(8, "B"))
    IN  CASE criteria = "harmonic" ->
                IF query_harmonic_raises(catalog, target_bpm, target_key,
                                         {target_song_id})
                THEN Raise("CuratorError", "Match finding failed")
                ELSE enhanced_results(
                        query_harmonic(catalog, target_bpm, target_key,
                                       max_results * 2, {target_song_id}),
                        target_meta, max_results)
          [] criteria = "semantic" ->
                IF ~Truthy(semantic_query_text(semantic_query, target_meta))
                THEN Raise("CuratorError", "semantic_query required when target has no mood_summary")
                ELSE enhanced_results(
                        query_semantic(catalog, max_results, genre_filter,
                                       {target_song_id}),
                        target_meta, max_results)
          [] criteria = "hybrid" ->
                IF query_hybrid_raises(catalog, target_song_id)
                THEN Raise("CuratorError", "Match finding failed")
                ELSE enhanced_results(
                        query_hybrid(catalog, target_song_id, max_results,
                                     genre_filter),
                        target_meta, max_results)
          [] OTHER -> Raise("CuratorError", "Invalid criteria")

\* most songs in the catalog besides the target
MaxCatalog == 3

\* The catalogs find_match is tried on.  The target, when stored, is the
\* first song; its document is at distance 0 from a query made of it.
TargetId == "song_a"

TargetMetas ==
    LET base == [bpm |-> 120, camelot |-> Key(8, "B"), energy_level |-> 8,
                 primary_genre |-> "Pop",
                 mood_summary |-> "upbeat and energetic"]
        without(k) == [x \in DOMAIN base \ {k} |-> base[x]]
    IN  { base, without("mood_summary"), without("bpm"),
          [base EXCEPT !["bpm"] = 0],
          [base EXCEPT !["camelot"] = Key(11, "A")] }

Song(id, metadata, distance) ==
    [id |-> id, metadata |-> metadata, document |-> <<"document of", id>>,
     distance |-> distance]

CandidateSamples ==
    { Song("song_b", [bpm |-> 125, camelot |-> Key(9, "B"), energy_level |-> 8,
                      primary_genre |-> "Pop"], Float(2, 10)),
      Song("song_c", [bpm |-> 80, camelot |-> Key(11, "A"), energy_level |-> 3,
                      primary_genre |-> "Country"], Float(7, 10)),
      Song("song_d", [bpm |-> 125, camelot |-> Key(9, "B"), energy_level |-> 3,
                      primary_genre |-> "Country"], Float(1, 10)),
      Song("song_e", [bpm |-> 120, camelot |-> Key(8, "A"), energy_level |-> 8,
                      primary_genre |-> "Pop"], Float(4, 10)),
      Song("song_f", [energy_level |-> 3, primary_genre |-> "Pop"],
           Float(3, 10)) }

\* the metadata of SongMetadata has no field "id"; a store whose records
\* carry one is the second half of the catalogs
Catalogs ==
    LET targets == {<<>>} \cup {<<Song(TargetId, t, Float(0, 1))>> :
                                    t \in TargetMetas}
        lists == {s \in UNION {[1..n -> CandidateSamples] :
                                    n \in 0..MaxCatalog} :
                    \A i, j \in 1..Len(s) : i # j => s[i] # s[j]}
        with_id(song) == [song EXCEPT !.metadata = @ @@ ("id" :> song.id)]
        plain == {t \o others : t \in targets, others \in lists}
    IN  plain \cup {[i \in 1..Len(c) |-> with_id(c[i])] : c \in plain}

InitMatch ==
    /\ \E c \in Catalogs, max_results \in 1..MaxMatches,
          criteria \in {"harmonic", "semantic", "hybrid", "random"},
          g \in Optional("genre_filter", {"Pop"}),
          q \in Optional("semantic_query", {"", "ironic and upbeat"}) :
            state = [catalog |-> c, target_song_id |-> TargetId,
                     criteria |-> criteria, max_results |-> max_results]
                        @@ g @@ q
    /\ pc = "enter"
    /\ executed = <<>>
    /\ result = NoResult

CallFindMatch ==
    Exit("find_match",
         find_match(state.catalog, state.target_song_id, state.criteria,
                    Get(state, "genre_filter"), Get(state, "semantic_query"),
                    state.max_results))

MatchSpec == InitMatch /\ [][CallFindMatch]_vars
-----------------------------------------------------------------------------
(* The node functions of nodes.py called once on a session its caller      *)
(* prepared, as the unit tests do: the initial state with some fields      *)
(* written.  state is the session handed over; result holds the dict the   *)
(* node returns, the calls it made to its collaborators and what they      *)
(* answered, or the KeyError that left the node.                           *)

Sessions ==
    { a @@ b @@ m @@ t @@ e @@ initial_state("srcA", None, None) :
        a \in {[x \in {} |-> None],
               [song_a_id |-> "songA", song_a_path |-> "songA"]},
        b \in {[x \in {} |-> None],
               [song_b_id |-> "songB"],
               [song_b_id |-> "songB", song_b_path |-> "songB"]},
        m \in Optional("match_candidates",
                       {o.matches : o \in {f \in FindOutcomes : f.ok}}),
        t \in Optional("approved_mashup_type", mashup_functions \cup {"POLKA"}),
        e \in {[error |-> x, retry_count |-> n] :
                    x \in {None, "Test error"}, n \in 0..max_retries} }

InitStage ==
    /\ state \in Sessions
    /\ pc = "enter"
    /\ executed = <<>>
    /\ result = NoResult

\* get_song, then profile_audio and get_song again unless the catalog
\* record has sections; AnalysisError comes from profile_audio or from the
\* record missing afterwards
StageAnalyzeSongA ==
    \E out \in AnalyzeOutcomes :
        IF analyze_song_a_raises(state, out)
        THEN Exit("analyze_song_a_node", Raise("KeyError", "state"))
        ELSE LET get == <<"get_song", state["song_a_id"]>>
                 profile == <<"profile_audio", state["song_a_path"]>>
             IN  \E calls \in CASE out = "cached" -> { <<get>> }
                                [] out = "analyzed" -> { <<get, profile, get>> }
                                [] out = "error" -> { <<get, profile>>,
                                                      <<get, profile, get>> } :
                    Exit("analyze_song_a_node",
                         Return([state |-> analyze_song_a_node(state, out),
                                 calls |-> calls, answer |-> out]))

StageAnalyzeSongB ==
    \E out \in AnalyzeOutcomes :
        IF analyze_song_b_raises(state, out)
        THEN Exit("analyze_song_b_node", Raise("KeyError", "state"))
        ELSE LET get == <<"get_song", Get(state, "song_b_id")>>
                 profile == <<"profile_audio", Get(state, "song_b_path")>>
             IN  \E calls \in CASE ~Truthy(Get(state, "song_b_id")) -> { <<>> }
                                [] out = "cached" -> { <<get>> }
                                [] out = "analyzed" -> { <<get, profile, get>> }
                                [] out = "error" -> { <<get, profile>>,
                                                      <<get, profile, get>> } :
                    Exit("analyze_song_b_node",
                         Return([state |-> analyze_song_b_node(state, out),
                                 calls |-> calls, answer |-> out]))

StageFindMatches ==
    \E out \in FindOutcomes :
        IF find_matches_raises(state, out)
        THEN Exit("find_matches_node", Raise("KeyError", "state"))
        ELSE Exit("find_matches_node",
                  Return([state |-> find_matches_node(state, out),
                          calls |->
                            IF Truthy(Get(state, "song_b_id")) THEN <<>>
                            ELSE << <<"find_match", state["song_a_id"],
                                      "hybrid", 5>> >>,
                          answer |-> out]))

StageAwaitUserSelection ==
    Exit("await_user_selection_node",
         Return([state |-> await_user_selection_node(state),
                 calls |-> <<>>, answer |-> None]))

\* mashup_fn(song_a_id=..., song_b_id=..., quality="high",
\* output_format="mp3"), mashup_fn being the function of the approved type
StageCreateMashup ==
    \E out \in CreateOutcomes :
        IF create_mashup_raises(state, out)
        THEN Exit("create_mashup_node", Raise("KeyError", "state"))
        ELSE LET mashup_type == GetOr(state, "approved_mashup_type", "CLASSIC")
             IN  Exit("create_mashup_node",
                      Return([state |-> create_mashup_node(state, out),
                              calls |->
                                IF mashup_type \notin mashup_functions
                                THEN <<>>
                                ELSE << [mashup_fn |-> mashup_type,
                                         song_a_id |-> state["song_a_id"],
                                         song_b_id |-> state["song_b_id"],
                                         quality |-> "high",
                                         output_format |-> "mp3"] >>,
                              answer |-> out]))

StageErrorHandler ==
    Exit("error_handler_node",
         Return([state |-> error_handler_node(state),
                 calls |-> <<>>, answer |-> None]))

StageSpec ==
    /\ InitStage
    /\ [][ \/ StageAnalyzeSongA
           \/ StageAnalyzeSongB
           \/ StageFindMatches
           \/ StageAwaitUserSelection
           \/ StageCreateMashup
           \/ StageErrorHandler ]_vars

-----------------------------------------------------------------------------
(* ingest_song of mixer/agents/ingestion.py.  state holds its arguments    *)
(* and the variables of its retry loop, executed the calls it has made     *)
(* with what each raised, result what it hands to its caller.  An input    *)
(* source is modelled by what detect_source_type looks at: its scheme, the *)
(* labels of its network location, and whether a file of that name exists. *)

\* most attempts a caller asks for (the default is 3)
MaxRetries == 3

\* a detection that takes every http(s) URL for a YouTube link
detect_source_type_any_url(input_source) ==
    IF input_source.scheme \in {"http", "https"}
    THEN Return("youtube")
    ELSE IF input_source.exists
         THEN Return("local_file")
         ELSE Raise("InvalidInputError", "neither a YouTube URL nor an existing file")

\* detect_source_type: 'youtube.com' in netloc or 'youtu.be' in netloc is
\* a test for a substring, here for consecutive labels
detect_source_type(input_source) ==
    LET netloc == input_source.netloc
        within(labels) ==
            \E i \in 1..(Len(netloc) - 1) :
                SubSeq(netloc, i, i + 1) = labels
    IN  IF input_source.scheme \in {"http", "https"}
        THEN IF within(<<"youtube", "com">>) \/ within(<<"youtu", "be">>)
             THEN Return("youtube")
             ELSE Raise("InvalidInputError", "URL is not a YouTube link")
        ELSE IF input_source.exists
             THEN Return("local_file")
             ELSE Raise("InvalidInputError", "neither a YouTube URL nor an existing file")

InitIngest ==
    /\ \E src \in { [scheme |-> "https", netloc |-> <<"www", "youtube", "com">>,
                     exists |-> FALSE],
                    [scheme |-> "http", netloc |-> <<"youtu", "be">>,
                     exists |-> FALSE],
                    [scheme |-> "https", netloc |-> <<"vimeo", "com">>,
                     exists |-> FALSE],
                    [scheme |-> "ftp", netloc |-> <<"www", "youtube", "com">>,
                     exists |-> FALSE],
                    [scheme |-> "", netloc |-> <<>>, exists |-> TRUE],
                    [scheme |-> "", netloc |-> <<>>, exists |-> FALSE] },
          n \in 1..MaxRetries :
            state = [input_source |-> src, max_retries |-> n]
    /\ pc = "enter"
    /\ executed = <<>>
    /\ result = NoResult

\* source_type = detect_source_type(input_source), and the branch on it;
\* the loop starts with attempt = 1 and last_error = None
DetectSourceType ==
    LET source_type == detect_source_type(state.input_source) IN
    /\ pc = "enter"
    /\ executed' = << [call |-> "detect_source_type",
                       raised |-> source_type.exception] >>
    /\ IF source_type.exception # None
       THEN /\ result' = source_type
            /\ pc' = "exit"
            /\ state' = state
       ELSE /\ result' = result
            /\ pc' = source_type.value
            /\ state' = IF source_type.value = "youtube"
                        THEN [input_source |-> state.input_source,
                              max_retries |-> state.max_retries,
                              attempt |-> 1, last_error |-> None]
                        ELSE state

\* return ingest_local_file(input_source): a result, or ValidationError
IngestLocalFile ==
    /\ pc = "local_file"
    /\ \E r \in {Return([source |-> "local_file", cached |-> c]) :
                    c \in BOOLEAN}
                \cup {Raise("ValidationError", "File validation failed")} :
          /\ executed' = Append(executed, [call |-> "ingest_local_file",
                                           raised |-> r.exception])
          /\ result' = r
    /\ pc' = "exit"
    /\ state' = state

\* one turn of the retry loop: return ingest_youtube_url(input_source);
\* ValidationError leaves the loop and ingest_song; DownloadError is kept
\* in last_error and, after a sleep of 2 ** attempt seconds, the next turn
\* follows, or after turn max_retries the loop ends and last_error is
\* raised
IngestYoutubeUrl ==
    /\ pc = "youtube"
    /\ state.attempt <= state.max_retries
    /\ \E r \in {Return([source |-> "youtube", cached |-> c]) : c \in BOOLEAN}
                \cup {Raise("ValidationError", "File validation failed"),
                      Raise("DownloadError", "YouTube metadata fetch timed out"),
                      Raise("DownloadError", "yt-dlp download failed")} :
          /\ executed' = Append(executed, [call |-> "ingest_youtube_url",
                                           raised |-> r.exception,
                                           error |-> r])
          /\ IF r.exception = "DownloadError" /\ state.attempt < state.max_retries
             THEN /\ state' = [state EXCEPT !.attempt = @ + 1,
                                            !.last_error = r]
                  /\ pc' = pc
                  /\ result' = result
             ELSE /\ state' = IF r.exception = "DownloadError"
                              THEN [state EXCEPT !.last_error = r]
                              ELSE state
                  /\ pc' = "exit"
                  /\ result' = r

IngestSpec ==
    InitIngest /\ [][DetectSourceType \/ IngestLocalFile \/ IngestYoutubeUrl]_vars


-----------------------------------------------------------------------------
(* Claims about the key wheel, checked under KeySpec *)

Called(fn) == pc = "exit" /\ executed = <<fn>>

\* position and mode of a key of the wheel
Position(k) == CHOOSE n \in 1..12 : \E l \in {"A", "B"} : k = Key(n, l)

Mode(k) == CHOOSE l \in {"A", "B"} : \E n \in 1..12 : k = Key(n, l)

DistanceFunctions == {"_camelot_distance", "_calculate_camelot_distance"}

DistanceBy(fn, k1, k2) ==
    IF fn = "_camelot_distance" THEN _camelot_distance(k1, k2)
    ELSE _calculate_camelot_distance(k1, k2)

DistanceOfValidKeys ==
    /\ pc = "exit"
    /\ executed[1] \in DistanceFunctions
    /\ state.key1 \in ValidKeys
    /\ state.key2 \in ValidKeys

C18_CompatibleKeys ==
    (Called("_get_compatible_keys") /\ state.key1 \in ValidKeys) =>
        LET k == state.key1
            p == Position(k)
            next == IF p = 12 THEN 1 ELSE p + 1
            prev == IF p = 1 THEN 12 ELSE p - 1
            other == IF Mode(k) = "A" THEN "B" ELSE "A"
            members == IF result.exception = None
                       THEN {result.value[i] : i \in 1..Len(result.value)}
                       ELSE {}
        IN  /\ result.exception = None
            /\ Len(result.value) = 4
            /\ Cardinality(members) = 4
            /\ members = {k, Key(next, Mode(k)), Key(prev, Mode(k)),
                          Key(p, other)}
            /\ members \subseteq ValidKeys
            /\ \A j \in ValidKeys :
                  j \in members <=> _camelot_distance(k, j) <= 1

C18_Witness ==
    /\ Called("_get_compatible_keys")
    /\ state.key1 = Key(12, "A")
    /\ result.exception = None
    /\ result.value = <<Key(12, "A"), Key(1, "A"), Key(11, "A"), Key(12, "B")>>

-----------------------------------------------------------------------------
(* Claims about the scorer, checked under ScoreSpec *)

\* C14: whenever calculate_compatibility_score returns, for the default
\* weights and for every caller-supplied weight map, normalized or not, the
\* score returned is at least 0 and at most 1.
C14_ScoreInUnitInterval ==
    (Called("calculate_compatibility_score") /\ result.exception = None) =>
        /\ ~flt(result.value.score, Float(0, 1))
        /\ ~flt(Float(1, 1), result.value.score)

\* weights that sum to 8, two songs that differ: the sum 4.8 is cut to 1
C14_Witness ==
    /\ Called("calculate_compatibility_score")
    /\ result.exception = None
    /\ "weights" \in DOMAIN state
    /\ "bpm" \in DOMAIN state.weights
    /\ state.weights["bpm"] = Float(2, 1)
    /\ GetOr(state.song_a_meta, "bpm", 120) = 120
    /\ GetOr(state.song_b_meta, "bpm", 120) = 0
    /\ result.value.score = Float(1, 1)

\* C15: calculate_compatibility_score returns a score, and raises nothing,
\* for every pair of song records, those with bpm 0 and those without bpm
\* or key included.
C15_ScorerNeverFails ==
    Called("calculate_compatibility_score") => result.exception = None

-----------------------------------------------------------------------------
(* Claims about the mashup-type selector, checked under SelectorSpec *)

SectionsOf(meta) == GetOr(meta, "sections", <<>>)

Vocals(meta) == GetOr(meta, "has_vocals", TRUE)

Functions(meta) == FieldValues(SectionsOf(meta), "lyrical_function")

Densities(meta) == FieldValues(SectionsOf(meta), "vocal_density")

\* the rules 1-7 that a pair of songs satisfies, each with its type and
\* its confidence in percent
SatisfiedRules(a, b) ==
    LET both_sections == SectionsOf(a) # <<>> /\ SectionsOf(b) # <<>>
        distance == _calculate_camelot_distance(
                        GetOr(a, "camelot", Key(8, "B")),
                        GetOr(b, "camelot", Key(8, "B")))
        pairing ==
            \/ "question" \in Functions(a) /\ "answer" \in Functions(b)
            \/ "question" \in Functions(b) /\ "answer" \in Functions(a)
            \/ /\ "narrative" \in Functions(a) \cup Functions(b)
               /\ "reflection" \in Functions(a) \cup Functions(b)
        overlap == ThemesOf(SectionsOf(a)) \cap ThemesOf(SectionsOf(b)) # {}
        contrast == /\ "dense" \in Densities(a) \cup Densities(b)
                    /\ "sparse" \in Densities(a) \cup Densities(b)
    IN  {r \in { [rule |-> 1, type |-> "ADAPTIVE_HARMONY", percent |-> 90],
                 [rule |-> 2, type |-> "CONVERSATIONAL", percent |-> 85],
                 [rule |-> 3, type |-> "THEME_FUSION", percent |-> 80],
                 [rule |-> 4, type |-> "ROLE_AWARE", percent |-> 75],
                 [rule |-> 5, type |-> "CLASSIC", percent |-> 70],
                 [rule |-> 6, type |-> "CLASSIC", percent |-> 60],
                 [rule |-> 7, type |-> "CLASSIC", percent |-> 50] } :
            \/ r.rule = 1 /\ distance > 2 /\ Vocals(a) /\ Vocals(b)
            \/ r.rule = 2 /\ both_sections /\ pairing
            \/ r.rule = 3 /\ both_sections /\ overlap
            \/ r.rule = 4 /\ both_sections /\ contrast
            \/ r.rule = 5 /\ Vocals(a) /\ Vocals(b)
            \/ r.rule = 6 /\ Vocals(a) # Vocals(b)
            \/ r.rule = 7 }

StrongestRule(a, b) ==
    CHOOSE r \in SatisfiedRules(a, b) :
        \A q \in SatisfiedRules(a, b) : q.percent <= r.percent

\* C19: recommend_mashup_type returns the type and the confidence of the
\* satisfied rule of highest confidence among rules 1-7; when song A has
\* vocals and song B has none it returns CLASSIC with confidence 0.60; the
\* confidence is between 0 and 1.
C19_StrongestRuleWins ==
    Called("recommend_mashup_type") =>
        LET a == state.song_a_meta
            b == state.song_b_meta
            best == StrongestRule(a, b)
        IN  /\ result.value.mashup_type = best.type
            /\ result.value.confidence = Float(best.percent, 100)
            /\ (Vocals(a) /\ ~Vocals(b) =>
                  /\ result.value.mashup_type = "CLASSIC"
                  /\ result.value.confidence = Float(60, 100))
            /\ ~flt(result.value.confidence, Float(0, 1))
            /\ ~flt(Float(1, 1), result.value.confidence)

\* C20: whenever recommend_mashup_type returns THEME_FUSION, the suggested
\* configuration has a theme, and the theme is shared by the sections of
\* song A and the sections of song B.
C20_ThemeIsShared ==
    (Called("recommend_mashup_type")
        /\ result.value.mashup_type = "THEME_FUSION") =>
        /\ "theme" \in DOMAIN result.value.config_suggestion
        /\ result.value.config_suggestion["theme"]
              \in ThemesOf(SectionsOf(state.song_a_meta))
                    \cap ThemesOf(SectionsOf(state.song_b_meta))

-----------------------------------------------------------------------------
(* Claims about find_match, checked under MatchSpec *)

FindMatchReturned == Called("find_match") /\ result.exception = None

\* C11: for every strategy and every catalog, the list find_match returns
\* is in non-increasing order of the compatibility_score its candidates
\* carry.
C11_ReturnedListSorted ==
    FindMatchReturned =>
        \A i \in 1..(Len(result.value) - 1) :
            ~flt(result.value[i].compatibility_score,
                 result.value[i + 1].compatibility_score)

\* C12: for every strategy and every catalog, the list find_match returns
\* does not contain the target song and is at most max_results long.
C12_NoTargetAtMostMaxResults ==
    FindMatchReturned =>
        /\ Len(result.value) <= state.max_results
        /\ \A i \in 1..Len(result.value) :
              result.value[i].id # state.target_song_id

\* the target is stored, more songs match than were asked for
C12_Witness ==
    /\ FindMatchReturned
    /\ get_song_found(state.catalog, state.target_song_id)
    /\ state.criteria = "harmonic"
    /\ state.max_results = 1
    /\ Len(result.value) = 1
    /\ Len(state.catalog) = 4

TargetMoodEmpty ==
    /\ get_song_found(state.catalog, state.target_song_id)
    /\ ~Truthy(GetOr(get_song(state.catalog, state.target_song_id).metadata,
                     "mood_summary", ""))

\* C13: find_match fails with CuratorError, and returns no list, whenever
\* the target is not in the catalog, whatever the strategy, and whenever
\* the strategy is semantic and the caller's query text and the target's
\* mood summary are both empty.
C13_FailsWithoutTargetOrQuery ==
    Called("find_match") =>
        /\ ~get_song_found(state.catalog, state.target_song_id) =>
              /\ result.exception = "CuratorError"
              /\ result.message = "Target song not found"
              /\ "value" \notin DOMAIN result
        /\ ( /\ state.criteria = "semantic"
             /\ ~Truthy(Get(state, "semantic_query"))
             /\ TargetMoodEmpty ) =>
              /\ result.exception = "CuratorError"
              /\ "value" \notin DOMAIN result

C13_Witness ==
    /\ Called("find_match")
    /\ state.criteria = "semantic"
    /\ Get(state, "semantic_query") = ""
    /\ TargetMoodEmpty
    /\ Len(state.catalog) > 1
    /\ result.exception = "CuratorError"
    /\ result.message = "semantic_query required when target has no mood_summary"

-----------------------------------------------------------------------------
(* The two key distances compared, checked under KeySpec *)

\* C29: for every pair of valid keys, _calculate_camelot_distance of
\* curator.py and _camelot_distance of queries.py return the same value.
C29_DistancesAgree ==
    DistanceOfValidKeys =>
        /\ result.exception = None
        /\ result.value = _camelot_distance(state.key1, state.key2)
        /\ result.value = _calculate_camelot_distance(state.key1, state.key2)

\* opposite positions in different modes: the largest distance
C29_Witness ==
    /\ Called("_camelot_distance")
    /\ state.key1 = Key(3, "B")
    /\ state.key2 = Key(9, "A")
    /\ result.value = 7
    /\ _calculate_camelot_distance(state.key1, state.key2) = 7

-----------------------------------------------------------------------------
(* Further claims about the mashup-type selector, checked under
   SelectorSpec *)

\* C27: the CONVERSATIONAL rule (confidence 0.85) is satisfied whenever both
\* songs have sections and either a question section of one song meets an
\* answer section of the other, in either order, or a narrative and a
\* reflection section are both present: the list of recommendations then
\* has a CONVERSATIONAL entry of confidence 0.85, and it is the returned
\* recommendation unless ADAPTIVE_HARMONY (0.9) is in the list too.
C27_PairingEitherOrder ==
    Called("recommend_mashup_type") =>
        LET a == state.song_a_meta
            b == state.song_b_meta
            found == recommendations(a, b, None)
            types == {found[i].type : i \in 1..Len(found)}
            pairing ==
                \/ "question" \in Functions(a) /\ "answer" \in Functions(b)
                \/ "question" \in Functions(b) /\ "answer" \in Functions(a)
                \/ /\ "narrative" \in Functions(a) \cup Functions(b)
                   /\ "reflection" \in Functions(a) \cup Functions(b)
        IN  (SectionsOf(a) # <<>> /\ SectionsOf(b) # <<>> /\ pairing) =>
                /\ \E i \in 1..Len(found) :
                      /\ found[i].type = "CONVERSATIONAL"
                      /\ found[i].confidence = Float(85, 100)
                /\ "ADAPTIVE_HARMONY" \notin types =>
                      /\ result.value.mashup_type = "CONVERSATIONAL"
                      /\ result.value.confidence = Float(85, 100)

\* C21: recommend_mashup_type is deterministic: the type, the confidence,
\* the reasoning and the suggested configuration it returns are determined
\* by the metadata of the two songs, whatever element a set of themes
\* yields first.
C21_Deterministic ==
    Called("recommend_mashup_type") =>
        LET a == state.song_a_meta
            b == state.song_b_meta
            themes_a == ThemesOf(SectionsOf(a))
            common == themes_a \cap ThemesOf(SectionsOf(b))
        IN  \A first_common \in common \cup {None},
               first_a \in themes_a \cup {None} :
                (/\ first_common = None <=> common = {}
                 /\ first_a = None <=> themes_a = {}) =>
                    result.value = recommend_mashup_type(a, b, first_common,
                                                         first_a)

-----------------------------------------------------------------------------
(* The harmonic pre-filter, checked under MatchSpec *)

\* C23: with the harmonic and the hybrid strategy, for a target of tempo
\* bpm and key K, every candidate find_match returns is a song of the
\* catalog other than the target whose tempo is within
\* [bpm * 0.95, bpm * 1.05] and whose key is one of the compatible keys of
\* K: a candidate of the harmonic pre-filter, for the hybrid strategy too.
C23_WithinTempoWindowAndCompatibleKey ==
    (/\ FindMatchReturned
     /\ state.criteria \in {"harmonic", "hybrid"}
     /\ Has(get_song(state.catalog, state.target_song_id).metadata, "bpm")
     /\ Has(get_song(state.catalog, state.target_song_id).metadata,
            "camelot")) =>
        LET target_meta ==
                get_song(state.catalog, state.target_song_id).metadata
            bpm == target_meta["bpm"]
            K == target_meta["camelot"]
            pre_filter ==
                {x \in ToSet(state.catalog) :
                    /\ x.id # state.target_song_id
                    /\ "bpm" \in DOMAIN x.metadata
                    /\ 95 * bpm <= 100 * x.metadata["bpm"]
                    /\ 100 * x.metadata["bpm"] <= 105 * bpm
                    /\ "camelot" \in DOMAIN x.metadata
                    /\ x.metadata["camelot"] \in ToSet(_get_compatible_keys(K))}
        IN  \A i \in 1..Len(result.value) :
                \E x \in pre_filter :
                    /\ x.id = result.value[i].id
                    /\ x.metadata = result.value[i].metadata

\* hybrid strategy, target at 120 bpm in 8B, stored with a song at 125 bpm
\* in 9B, a song at 80 bpm in 11A and a song without tempo and key: the
\* first alone is returned
C23_Witness ==
    /\ FindMatchReturned
    /\ state.criteria = "hybrid"
    /\ get_song(state.catalog, state.target_song_id).metadata["camelot"]
          = Key(8, "B")
    /\ Len(state.catalog) = 4
    /\ \E i \in 2..4 : state.catalog[i].id = "song_c"
    /\ \E i \in 2..4 : state.catalog[i].id = "song_f"
    /\ Len(result.value) = 1
    /\ result.value[1].id = "song_b"

-----------------------------------------------------------------------------
(* Claims about single stages, checked under StageSpec: state is the
   session the node was called on, After the session it returned *)

\* node fn has returned (no exception left it)
Staged(fn) == Called(fn) /\ result.exception = None

\* the session after the call
After == result.value.state

\* session b is session a with nothing changed outside the fields keys
SameExcept(a, b, keys) ==
    /\ DOMAIN b \ keys = DOMAIN a \ keys
    /\ \A k \in DOMAIN a \ keys : b[k] = a[k]

\* log b is log a with one message appended
OneMore(a, b) == Len(b) = Len(a) + 1 /\ SubSeq(b, 1, Len(a)) = a

C26_StagesThatDoNotApply ==
    /\ (Called("find_matches_node") /\ Truthy(Get(state, "song_b_id"))) =>
          /\ result.exception = None
          /\ After = state
          /\ result.value.calls = <<>>
    /\ (Called("await_user_selection_node")
            /\ Truthy(Get(state, "song_b_id"))) =>
          /\ result.exception = None
          /\ After = state
    /\ (Called("analyze_song_b_node") /\ ~Truthy(Get(state, "song_b_id"))) =>
          /\ result.exception = None
          /\ After = state
          /\ result.value.calls = <<>>
    /\ (Called("await_user_selection_node")
            /\ ~Truthy(Get(state, "song_b_id"))
            /\ Has(state, "match_candidates")
            /\ state["match_candidates"] # <<>>) =>
          /\ result.exception = None
          /\ After["song_b_id"] = state["match_candidates"][1].id
          /\ After["selected_match"] = state["match_candidates"][1]
          /\ After["song_b_metadata"] = state["match_candidates"][1].metadata

\* two candidates, the first is bound
C26_Witness ==
    /\ Called("await_user_selection_node")
    /\ ~Has(state, "song_b_id")
    /\ Has(state, "match_candidates")
    /\ Len(state["match_candidates"]) = 2
    /\ After["song_b_id"] = state["match_candidates"][1].id
    /\ After["song_b_id"] # state["match_candidates"][2].id

\* the calls of a node that reach the analysis service or write the catalog
AnalysisOrWrite(calls) ==
    {i \in 1..Len(calls) : calls[i][1] # "get_song"}

\* C22: when the catalog record of the song already has sections,
\* analyze_song_a_node and analyze_song_b_node do not call the analysis
\* service and write nothing to the catalog; they set the song's metadata
\* in the session to the metadata of the catalog record and do not set
\* error (it stays as it was: None when it was None).
C22_AnalyzedSongIsNotAnalyzedAgain ==
    /\ (Staged("analyze_song_a_node") /\ result.value.answer = "cached") =>
          /\ AnalysisOrWrite(result.value.calls) = {}
          /\ Has(After, "song_a_metadata")
          /\ After["song_a_metadata"] = MetaOf(state["song_a_id"])
          /\ After["error"] = state["error"]
          /\ After["status"] # FAILED
    /\ (Staged("analyze_song_b_node") /\ result.value.answer = "cached"
            /\ Truthy(Get(state, "song_b_id"))) =>
          /\ AnalysisOrWrite(result.value.calls) = {}
          /\ Has(After, "song_b_metadata")
          /\ After["song_b_metadata"] = MetaOf(state["song_b_id"])
          /\ After["error"] = state["error"]
          /\ After["status"] # FAILED

C22_Witness ==
    /\ Staged("analyze_song_b_node")
    /\ result.value.answer = "cached"
    /\ Has(state, "song_b_id")
    /\ ~Has(state, "song_b_path")
    /\ state["error"] = None
    /\ result.value.calls = << <<"get_song", "songB">> >>
    /\ After["song_b_metadata"] = MetaOf("songB")
    /\ After["error"] = None

\* the type create_mashup_node builds
ApprovedType == GetOr(state, "approved_mashup_type", "CLASSIC")

\* what C25 says of a call of create_mashup_node that ends
CreateMashupOutcome ==
    IF ApprovedType \in mashup_functions /\ result.value.answer.ok
    THEN /\ After["status"] = COMPLETED
         /\ After["mashup_output_path"] = result.value.answer.path
         /\ result.value.calls
              = << [mashup_fn |-> ApprovedType,
                    song_a_id |-> state["song_a_id"],
                    song_b_id |-> state["song_b_id"],
                    quality |-> "high", output_format |-> "mp3"] >>
    ELSE /\ After["status"] = FAILED
         /\ Truthy(After["error"])
         /\ After["error"] # state["error"]
         /\ ~Has(After, "mashup_output_path")

-----------------------------------------------------------------------------
(* The completed session, checked under Spec *)

\* C28: whenever the session of a run has status COMPLETED, its error is
\* None and its mashup_output_path is set: no run reaches COMPLETED with an
\* error that an earlier stage set and error handling did not clear.
C28_CompletedWithoutError ==
    state["status"] = COMPLETED =>
        /\ Get(state, "error") = None
        /\ Has(state, "mashup_output_path")

-----------------------------------------------------------------------------
(* Claims about ingest_song, checked under IngestSpec *)

\* the positions in the history of the calls of fn
CallsOf(fn) == {i \in 1..Len(executed) : executed[i].call = fn}

\* the host of a URL is youtube.com, a subdomain of it, or youtu.be
YouTubeUrl(src) ==
    /\ src.scheme \in {"http", "https"}
    /\ Len(src.netloc) >= 2
    /\ SubSeq(src.netloc, Len(src.netloc) - 1, Len(src.netloc))
          \in { <<"youtube", "com">>, <<"youtu", "be">> }

ExistingFile(src) == src.scheme \notin {"http", "https"} /\ src.exists

====
